---- MODULE Spec2Model ----
(***************************************************************************)
(* LicdataArtifactApp (licdata_artifact_app.py): the two acceptors that    *)
(* turn a request's options into a domain event, hand it to the domain     *)
(* handler and emit every event the handler returns, together with the     *)
(* decorator table that enables the D-Bus listener and emitter.            *)
(*                                                                         *)
(* An acceptor is a coroutine.  It runs without interruption up to the     *)
(* await of the domain handler (the metadata coroutine it awaits first has *)
(* no await of its own and never suspends), and then from one await of     *)
(* emit to the next; at each of these awaits other coroutines may run.  A  *)
(* pipeline is one invocation of an acceptor.                              *)
(***************************************************************************)
EXTENDS Integers, Sequences, FiniteSets, TLC

\* Longest result sequence the domain handler returns in the model.
MaxResults == 2

\* The acceptor invocations of a run; any of them may be in flight at the
\* same time.
Tasks == {"p1", "p2"}

---------------------------------------------------------------------------
(* Python values: str and None.  KeyError is the exception a subscript on  *)
(* a missing key raises; dict.get never produces it.                       *)

None == [t |-> "NoneType", v |-> ""]

PyStr(s) == [t |-> "str", v |-> s]

KeyError(k) == [t |-> "KeyError", v |-> k]

IsException(x) == x.t = "KeyError"

\* f"{x}": str(x); str(None) is "None".
Format(x) == IF x.t = "NoneType" THEN "None" ELSE x.v

\* options[key]: KeyError when the key is missing.
GetOrRaise(options, key) ==
    IF key \in DOMAIN options THEN options[key] ELSE KeyError(key)

\* options.get(key, None)
Get(options, key) ==
    IF key \in DOMAIN options THEN options[key] ELSE None

---------------------------------------------------------------------------
(* _build_docker_image_event_metadata: a new dict with every item of       *)
(* options whose key is not image_version or docker_registry_url.          *)

ExcludedKeys == {"image_version", "docker_registry_url"}

MetadataKeepingRegistryUrl(options) ==
    [key \in DOMAIN options \ {"image_version"} |-> options[key]]

build_docker_image_event_metadata(options) ==
    [key \in {k \in DOMAIN options : k \notin ExcludedKeys} |-> options[key]]

---------------------------------------------------------------------------
(* The domain events the acceptors construct.                              *)

NoEvent == [class |-> "None"]

DockerImageRequested(image_name, image_version, metadata) ==
    [class         |-> "DockerImageRequested",
     image_name    |-> image_name,
     image_version |-> image_version,
     metadata      |-> metadata]

DockerImagePushRequested(image_name, image_version, image_url, docker_registry_url, metadata) ==
    [class               |-> "DockerImagePushRequested",
     image_name          |-> image_name,
     image_version       |-> image_version,
     image_url           |-> image_url,
     docker_registry_url |-> docker_registry_url,
     metadata            |-> metadata]

\* f"licdata-{variant}-python{python_version}"
ImageNameVersionFirst(variant, python_version) ==
    "licdata-" \o Format(python_version) \o "-python" \o Format(variant)

ImageName(variant, python_version) ==
    "licdata-" \o Format(variant) \o "-python" \o Format(python_version)

\* f"{docker_registry_url}/{image_name}:{image_version}"
ImageUrlWithoutVersion(docker_registry_url, image_name, image_version) ==
    Format(docker_registry_url) \o "/" \o image_name

ImageUrl(docker_registry_url, image_name, image_version) ==
    Format(docker_registry_url) \o "/" \o image_name \o ":"
        \o Format(image_version)

\* The values an acceptor reads from options before it builds the event; an
\* exception among them leaves the acceptor before the event is built.
RequestedInputs(options) ==
    {Get(options, "image_version"), Get(options, "variant"),
     Get(options, "python_version"), Get(options, "azure_base_version")}

PushRequestedInputs(options) ==
    RequestedInputs(options) \cup {Get(options, "docker_registry_url")}

\* The build event named after the registry it would be pushed to.
RequestedEventWithRegistry(options) ==
    DockerImageRequested(
        Format(Get(options, "docker_registry_url")) \o "/"
            \o ImageName(Get(options, "variant"), Get(options, "python_version")),
        Get(options, "image_version"),
        build_docker_image_event_metadata(options))

\* accept_docker_image_requested, up to the event handed to the handler.
RequestedEvent(options) ==
    LET metadata       == build_docker_image_event_metadata(options)
        image_version  == Get(options, "image_version")
        variant        == Get(options, "variant")
        python_version == Get(options, "python_version")
        image_name     == ImageName(variant, python_version)
    IN  DockerImageRequested(image_name, image_version, metadata)

\* The push event named after the variant alone.
PushRequestedEventNamedByVariant(options) ==
    LET image_name == "licdata-" \o Format(Get(options, "variant"))
    IN  DockerImagePushRequested(
            image_name,
            Get(options, "image_version"),
            ImageUrl(Get(options, "docker_registry_url"), image_name,
                     Get(options, "image_version")),
            Get(options, "docker_registry_url"),
            build_docker_image_event_metadata(options))

\* accept_docker_image_push_requested, up to the event handed to the handler.
PushRequestedEvent(options) ==
    LET metadata            == build_docker_image_event_metadata(options)
        image_version       == Get(options, "image_version")
        docker_registry_url == Get(options, "docker_registry_url")
        variant             == Get(options, "variant")
        python_version      == Get(options, "python_version")
        image_name          == ImageName(variant, python_version)
        image_url           == ImageUrl(docker_registry_url, image_name,
                                        image_version)
    IN  DockerImagePushRequested(image_name, image_version, image_url,
                                 docker_registry_url, metadata)

---------------------------------------------------------------------------
(* The @enable table of the class.                                         *)

\* Event classes the D-Bus signal listener is enabled for, with their bus.
InboundTableWithPushed ==
    {[event_class |-> "DbusDockerImageRequested", bus_type |-> "SYSTEM"],
     [event_class |-> "DbusDockerImagePushed", bus_type |-> "SYSTEM"],
     [event_class |-> "DbusCredentialProvided", bus_type |-> "SYSTEM"]}

InboundTable ==
    {[event_class |-> "DbusDockerImageRequested", bus_type |-> "SYSTEM"],
     [event_class |-> "DbusDockerImagePushRequested", bus_type |-> "SYSTEM"],
     [event_class |-> "DbusCredentialProvided", bus_type |-> "SYSTEM"]}

\* Event classes the D-Bus signal emitter is enabled for, with their bus.
OutboundTableWithoutAvailable ==
    {[event_class |-> "DbusCredentialRequested", bus_type |-> "SYSTEM"],
     [event_class |-> "DbusDockerImagePushed", bus_type |-> "SYSTEM"]}

OutboundTableOnSession ==
    {[event_class |-> "DbusCredentialRequested", bus_type |-> "SYSTEM"],
     [event_class |-> "DbusDockerImageAvailable", bus_type |-> "SESSION"],
     [event_class |-> "DbusDockerImagePushed", bus_type |-> "SYSTEM"]}

OutboundTable ==
    {[event_class |-> "DbusCredentialRequested", bus_type |-> "SYSTEM"],
     [event_class |-> "DbusDockerImageAvailable", bus_type |-> "SYSTEM"],
     [event_class |-> "DbusDockerImagePushed", bus_type |-> "SYSTEM"]}

\* The command-line ports the class enables: RequestDockerImageCli.  The
\* @enable of RequestDockerImagePushedCli is commented out.
CliTableWithPush == {"RequestDockerImageCli", "RequestDockerImagePushedCli"}

CliTable == {"RequestDockerImageCli"}

\* The acceptor of this class a subscribed event class is dispatched to.
\* The class has no acceptor for DbusCredentialProvided.
AcceptorFor(kind) ==
    CASE kind = "DbusDockerImageRequested" -> "accept_docker_image_requested"
      [] kind = "DbusDockerImagePushRequested" -> "accept_docker_image_push_requested"
      [] OTHER -> "none"

\* The acceptor a command-line port calls with the options of its flags.
CliAcceptorFor(cli) ==
    CASE cli = "RequestDockerImageCli" -> "accept_docker_image_requested"
      [] cli = "RequestDockerImagePushedCli" -> "accept_docker_image_push_requested"
      [] OTHER -> "none"

\* The domain handler an acceptor awaits.
HandlerOfAlwaysRequested(name) == "listen_DockerImageRequested"

HandlerOf(name) ==
    IF name = "accept_docker_image_requested"
    THEN "listen_DockerImageRequested"
    ELSE "listen_DockerImagePushRequested"

\* The D-Bus event class an event is emitted as.
DbusClassOf(e) == "Dbus" \o e

---------------------------------------------------------------------------
(* Inputs.                                                                 *)

\* Event classes the transport may carry towards the application.
InboundKinds ==
    {"DbusDockerImageRequested", "DbusDockerImagePushRequested",
     "DbusCredentialProvided", "DbusDockerImagePushed"}

\* Command-line ports a request may come through.
Clis == {"RequestDockerImageCli", "RequestDockerImagePushedCli"}

\* Events the domain handler may return.
ResultEvents == {"DockerImageAvailable", "DockerImagePushed"}

RECURSIVE SeqsUpTo(_, _)
SeqsUpTo(S, n) ==
    IF n = 0 THEN {<<>>}
    ELSE LET shorter == SeqsUpTo(S, n - 1)
         IN  shorter \cup {Append(s, e) : s \in {x \in shorter : Len(x) = n - 1}, e \in S}

ResultSequences == SeqsUpTo(ResultEvents, MaxResults)

\* Events of every class of the outbound table, and one of a class the
\* emitter is not enabled for.
OutboundEvents ==
    {"CredentialRequested", "DockerImageAvailable", "DockerImagePushed",
     "DockerImageRequested"}

OutboundSequences == SeqsUpTo(OutboundEvents, MaxResults)

Absent == [t |-> "absent", v |-> ""]

\* Every options mapping over the keys below: each key absent, None or a str.
OptionChoices ==
    [variant             : {Absent, None, PyStr("slim"), PyStr("full")},
     python_version      : {Absent, None, PyStr("3.12")},
     image_version       : {Absent, None, PyStr("1.0")},
     docker_registry_url : {Absent, None, PyStr("registry.example.com")},
     azure_base_version  : {Absent, PyStr("4")},
     trace_id            : {Absent, PyStr("x")}]

Present(choice) ==
    [key \in {k \in DOMAIN choice : choice[k] # Absent} |-> choice[key]]

AllOptions == {Present(c) : c \in OptionChoices}

\* The options of the concurrent pipelines: a complete mapping and one that
\* lacks variant and docker_registry_url.
SampleOptions ==
    {[variant |-> PyStr("slim"), python_version |-> PyStr("3.12"),
      image_version |-> PyStr("1.0"),
      docker_registry_url |-> PyStr("registry.example.com")],
     [python_version |-> PyStr("3.12"), image_version |-> PyStr("2.0"),
      trace_id |-> PyStr("x")]}

---------------------------------------------------------------------------
(* State.  Per pipeline: where the coroutine is (pc), which acceptor it    *)
(* runs, the options it was called with, the event it handed to the        *)
(* handler, what the handler returned, the index of the for loop, the emit *)
(* calls it has made and the exception that left it; the surface the       *)
(* request came through, the handler invocations it made and the events    *)
(* its emit calls put on the bus.  lookup is the last delivery of the      *)
(* transport or request of the command line and whether the class was      *)
(* enabled for it.  routing is the table the decorators registered.        *)

VARIABLES pc, acceptor, options, event, results, idx, emitted, err, lookup,
          surface, invoked, published, routing

vars ==
    <<pc, acceptor, options, event, results, idx, emitted, err, lookup,
      surface, invoked, published, routing>>

pipelines ==
    <<pc, acceptor, options, event, results, idx, emitted, err,
      surface, invoked, published>>

Pipeline(t) ==
    <<pc[t], acceptor[t], options[t], event[t], results[t], idx[t], emitted[t], err[t],
      surface[t], invoked[t], published[t]>>

Dispatching(t) == pc[t] \in {"handler", "publishing"}

NoLookup == [event_class |-> "none", hit |-> FALSE]

Init ==
    /\ pc = [t \in Tasks |-> "idle"]
    /\ acceptor = [t \in Tasks |-> "none"]
    /\ options = [t \in Tasks |-> <<>>]
    /\ event = [t \in Tasks |-> NoEvent]
    /\ results = [t \in Tasks |-> <<>>]
    /\ idx = [t \in Tasks |-> 0]
    /\ emitted = [t \in Tasks |-> <<>>]
    /\ err = [t \in Tasks |-> "none"]
    /\ lookup = NoLookup
    /\ surface = [t \in Tasks |-> "none"]
    /\ invoked = [t \in Tasks |-> <<>>]
    /\ published = [t \in Tasks |-> <<>>]
    /\ routing = [inbound |-> InboundTable, outbound |-> OutboundTable, cli |-> CliTable]

Subscribed(kind) == \E e \in routing.inbound : e.event_class = kind

\* The emitter is enabled for the class of result event e.
Registered(e) == \E r \in routing.outbound : r.event_class = DbusClassOf(e)

\* What the emitter puts on the bus for result event e: the signal of its
\* class on the bus of its entry, and nothing for a class without entry.
SignalsOf(e) ==
    IF Registered(e)
    THEN LET r == CHOOSE x \in routing.outbound : x.event_class = DbusClassOf(e)
         IN  <<[event |-> e, event_class |-> r.event_class, bus_type |-> r.bus_type]>>
    ELSE <<>>

\* options as the sanitizer leaves the caller's mapping: it writes to a new
\* dict only.
OptionsAfterPop(opts) ==
    [key \in DOMAIN opts \ ExcludedKeys |-> opts[key]]

OptionsAfterAccept(opts) == opts

\* The coroutine of pipeline t starts and runs to its first suspension: it
\* leaves with the exception raised while reading options, or it has built
\* ev and awaits the domain handler called with it.
StartSharingEvent(t, name, opts, ev, raised) ==
    /\ pc[t] = "idle"
    /\ acceptor' = [acceptor EXCEPT ![t] = name]
    /\ options' = [options EXCEPT ![t] = opts]
    /\ UNCHANGED <<results, idx, emitted, published, err>>
    /\ pc' = [pc EXCEPT ![t] = "handler"]
    /\ event' = [u \in Tasks |-> IF u = t \/ Dispatching(u) THEN ev ELSE event[u]]
    /\ invoked' = [invoked EXCEPT ![t] = Append(@, [handler |-> HandlerOf(name), event |-> ev])]

Start(t, name, opts, ev, raised) ==
    /\ pc[t] = "idle"
    /\ acceptor' = [acceptor EXCEPT ![t] = name]
    /\ options' = [options EXCEPT ![t] = opts]
    /\ UNCHANGED <<results, idx, emitted, published>>
    /\ IF raised
       THEN /\ pc' = [pc EXCEPT ![t] = "failed"]
            /\ err' = [err EXCEPT ![t] = "translate"]
            /\ UNCHANGED <<event, invoked>>
       ELSE /\ pc' = [pc EXCEPT ![t] = "handler"]
            /\ event' = [event EXCEPT ![t] = ev]
            /\ invoked' = [invoked EXCEPT ![t] =
                              Append(@, [handler |-> HandlerOf(name), event |-> ev])]
            /\ UNCHANGED err

\* The event carries the number of the request among those accepted so far.
accept_docker_image_requested_numbered(t, opts) ==
    Start(t, "accept_docker_image_requested", OptionsAfterAccept(opts),
          DockerImageRequested(
              ImageName(Get(opts, "variant"), Get(opts, "python_version")),
              Get(opts, "image_version"),
              [key \in {"request_number"} |->
                  PyStr(ToString(Cardinality({u \in Tasks : pc[u] # "idle"})))]),
          \E x \in RequestedInputs(opts) : IsException(x))

\* accept_docker_image_requested, to the await of listen_DockerImageRequested.
accept_docker_image_requested(t, opts) ==
    Start(t, "accept_docker_image_requested", OptionsAfterAccept(opts),
          RequestedEvent(opts), \E x \in RequestedInputs(opts) : IsException(x))

\* accept_docker_image_push_requested, to the await of
\* listen_DockerImagePushRequested.
accept_docker_image_push_requested(t, opts) ==
    Start(t, "accept_docker_image_push_requested", OptionsAfterAccept(opts),
          PushRequestedEvent(opts), \E x \in PushRequestedInputs(opts) : IsException(x))

\* The acceptor called name starts a pipeline, one of T not yet started, with
\* options, one of O, that came through the surface origin.
Call(T, O, name, origin) ==
    \E t \in {u \in T : pc[u] = "idle"}, opts \in O :
        /\ surface' = [surface EXCEPT ![t] = origin]
        /\ IF name = "accept_docker_image_requested"
           THEN accept_docker_image_requested(t, opts)
           ELSE accept_docker_image_push_requested(t, opts)

\* The transport delivers an event of class kind.  The listener is enabled
\* for the classes of the inbound table only; an event of another class is
\* not handed to the application.  An event the class has an acceptor for
\* starts a pipeline with the options the event carries.
Deliver(T, O, kind) ==
    /\ lookup' = [event_class |-> kind, hit |-> Subscribed(kind)]
    /\ UNCHANGED routing
    /\ IF Subscribed(kind) /\ AcceptorFor(kind) # "none"
       THEN Call(T, O, AcceptorFor(kind), "bus")
       ELSE UNCHANGED pipelines

\* A request is made on the command line through the port cli.  A port the
\* class enables calls its acceptor with the options of the flags; a port it
\* does not enable takes no request.
Request(T, O, cli) ==
    /\ lookup' = [event_class |-> cli, hit |-> cli \in routing.cli]
    /\ UNCHANGED routing
    /\ IF cli \in routing.cli /\ CliAcceptorFor(cli) # "none"
       THEN Call(T, O, CliAcceptorFor(cli), "cli")
       ELSE UNCHANGED pipelines

\* The domain handler raises, and every pipeline ends with it.
HandlerRaisesEndingAll(t) ==
    /\ pc[t] = "handler"
    /\ pc' = [u \in Tasks |-> IF Dispatching(u) THEN "failed" ELSE pc[u]]
    /\ err' = [u \in Tasks |-> IF Dispatching(u) THEN "handler" ELSE err[u]]
    /\ UNCHANGED <<acceptor, options, event, results, idx, emitted, lookup,
                   surface, invoked, published, routing>>

\* The awaited domain handler raises: the exception leaves the acceptor.
HandlerRaises(t) ==
    /\ pc[t] = "handler"
    /\ pc' = [pc EXCEPT ![t] = "failed"]
    /\ err' = [err EXCEPT ![t] = "handler"]
    /\ UNCHANGED <<acceptor, options, event, results, idx, emitted, lookup,
                   surface, invoked, published, routing>>

\* The handler returns, and an empty result is an error.
HandlerReturnsRejectingEmpty(t, rs) ==
    /\ pc[t] = "handler"
    /\ results' = [results EXCEPT ![t] = rs]
    /\ idx' = [idx EXCEPT ![t] = 1]
    /\ pc' = [pc EXCEPT ![t] = IF rs = <<>> THEN "failed" ELSE "publishing"]
    /\ err' = [err EXCEPT ![t] = IF rs = <<>> THEN "emit" ELSE "none"]
    /\ UNCHANGED <<acceptor, options, event, emitted, lookup,
                   surface, invoked, published, routing>>

\* The handler returns, and the events are kept where every running pipeline
\* reads them.
HandlerReturnsSharingResults(t, rs) ==
    /\ pc[t] = "handler"
    /\ results' = [u \in Tasks |-> IF u = t \/ Dispatching(u) THEN rs ELSE results[u]]
    /\ idx' = [idx EXCEPT ![t] = 1]
    /\ pc' = [pc EXCEPT ![t] = IF rs = <<>> THEN "done" ELSE "publishing"]
    /\ UNCHANGED <<acceptor, options, event, emitted, err, lookup,
                   surface, invoked, published, routing>>

\* The awaited domain handler returns events: the for loop starts, and with
\* no event to iterate over the acceptor returns.
HandlerReturns(t, rs) ==
    /\ pc[t] = "handler"
    /\ results' = [results EXCEPT ![t] = rs]
    /\ idx' = [idx EXCEPT ![t] = 1]
    /\ pc' = [pc EXCEPT ![t] = IF rs = <<>> THEN "done" ELSE "publishing"]
    /\ UNCHANGED <<acceptor, options, event, emitted, err, lookup,
                   surface, invoked, published, routing>>

\* emit returns, and the acceptor returns with it after the first event.
EmitReturnsOnce(t) ==
    /\ pc[t] = "publishing"
    /\ emitted' = [emitted EXCEPT ![t] = Append(@, results[t][idx[t]])]
    /\ published' = [published EXCEPT ![t] = @ \o SignalsOf(results[t][idx[t]])]
    /\ idx' = [idx EXCEPT ![t] = @ + 1]
    /\ pc' = [pc EXCEPT ![t] = "done"]
    /\ UNCHANGED <<acceptor, options, event, results, err, lookup,
                   surface, invoked, routing>>

\* await self.emit(event) returns: the loop goes on to the next event, and
\* after the last one the acceptor returns.
EmitReturns(t) ==
    /\ pc[t] = "publishing"
    /\ emitted' = [emitted EXCEPT ![t] = Append(@, results[t][idx[t]])]
    /\ published' = [published EXCEPT ![t] = @ \o SignalsOf(results[t][idx[t]])]
    /\ idx' = [idx EXCEPT ![t] = @ + 1]
    /\ pc' = [pc EXCEPT ![t] = IF idx[t] = Len(results[t]) THEN "done" ELSE "publishing"]
    /\ UNCHANGED <<acceptor, options, event, results, err, lookup,
                   surface, invoked, routing>>

\* await self.emit(event) raises: the exception leaves the loop and the
\* acceptor.  The failure is one of the transport, which the emitter uses
\* for the classes it is enabled for.
EmitRaises(t) ==
    /\ pc[t] = "publishing"
    /\ Registered(results[t][idx[t]])
    /\ emitted' = [emitted EXCEPT ![t] = Append(@, results[t][idx[t]])]
    /\ pc' = [pc EXCEPT ![t] = "failed"]
    /\ err' = [err EXCEPT ![t] = "emit"]
    /\ UNCHANGED <<acceptor, options, event, results, idx, lookup,
                   surface, invoked, published, routing>>

Step(T, O) ==
    \/ \E kind \in InboundKinds : Deliver(T, O, kind)
    \/ \E cli \in Clis : Request(T, O, cli)
    \/ \E t \in T, rs \in ResultSequences : HandlerReturns(t, rs)
    \/ \E t \in T : HandlerRaises(t)
    \/ \E t \in T : EmitReturns(t)
    \/ \E t \in T : EmitRaises(t)

\* Concurrent pipelines.
Next == Step(Tasks, SampleOptions)

Spec == Init /\ [][Next]_vars

\* One pipeline at a time, over every options mapping.
NextTranslate == Step({"p1"}, AllOptions)

SpecTranslate == Init /\ [][NextTranslate]_vars

\* Concurrent pipelines whose awaited calls all complete: the handler
\* returns or raises, and so does every emit.  Where a coroutine is depends
\* on no value of options, and one options mapping is delivered.
FairOptions ==
    {[variant |-> PyStr("slim"), python_version |-> PyStr("3.12"),
      image_version |-> PyStr("1.0"),
      docker_registry_url |-> PyStr("registry.example.com")]}

NextFair ==
    \/ \E kind \in {"DbusDockerImageRequested", "DbusDockerImagePushRequested"} :
          Deliver(Tasks, FairOptions, kind)
    \/ \E t \in Tasks, rs \in ResultSequences : HandlerReturns(t, rs)
    \/ \E t \in Tasks : HandlerRaises(t)
    \/ \E t \in Tasks : EmitReturns(t)
    \/ \E t \in Tasks : EmitRaises(t)

Fairness ==
    \A t \in Tasks :
        /\ WF_vars(HandlerRaises(t) \/ \E rs \in ResultSequences : HandlerReturns(t, rs))
        /\ WF_vars(EmitReturns(t) \/ EmitRaises(t))

SpecFair == Init /\ [][NextFair]_vars /\ Fairness

\* One pipeline whose handler returns events of every class.
NextOutbound ==
    \/ \E kind \in InboundKinds : Deliver({"p1"}, SampleOptions, kind)
    \/ \E cli \in Clis : Request({"p1"}, SampleOptions, cli)
    \/ \E rs \in OutboundSequences : HandlerReturns("p1", rs)
    \/ HandlerRaises("p1")
    \/ EmitReturns("p1")
    \/ EmitRaises("p1")

SpecOutbound == Init /\ [][NextOutbound]_vars

---------------------------------------------------------------------------
(* Properties.                                                             *)

\* The handler of pipeline t has returned.
Returned(t) == idx[t] > 0

\* The pipeline has handed an event to the domain handler.
Handed(t) == pc[t] # "idle" /\ event[t].class # "None"

\* options without the keys of K.
Without(o, K) == [k \in DOMAIN o \ K |-> o[k]]

HasStr(o, k) == k \in DOMAIN o /\ o[k].t = "str"

\* C1: when the handler of an inbound event has returned e1..eN and the
\* acceptor has ended, the emit calls made for that event are exactly e1..eN
\* in that order.
C1_PublishCallsAreTheResults ==
    \A t \in Tasks :
        (pc[t] = "done" \/ (pc[t] = "failed" /\ err[t] = "emit"))
            => emitted[t] = results[t]

\* C2: an emit that fails at position i does not keep the acceptor from
\* calling emit for positions i+1..N: a pipeline that ended on a failed emit
\* has called emit for every result event.
C2_FailedPublishDoesNotStopTheRest ==
    \A t \in Tasks :
        (pc[t] = "failed" /\ err[t] = "emit")
            => Len(emitted[t]) = Len(results[t])

\* C3, as stated: while one pipeline is between the start of its acceptor
\* and its last publish, no other pipeline is.
C3_OnePipelineAtATime ==
    Cardinality({t \in Tasks : Dispatching(t)}) <= 1

\* C3, amended: pipelines of different deliveries overlap at the awaits, and
\* every step between two awaits belongs to one pipeline: it changes the
\* state of no other pipeline.
C3_EachStepBelongsToOnePipeline ==
    [][\A t \in Tasks, u \in Tasks :
          (t # u /\ Pipeline(t)' # Pipeline(t)) => Pipeline(u)' = Pipeline(u)]_vars

C3_Witness ==
    /\ pc["p1"] = "publishing" /\ Len(emitted["p1"]) = 1
    /\ pc["p2"] = "publishing" /\ Len(emitted["p2"]) = 1
    /\ results["p1"] # results["p2"]

\* C4: when the domain handler raises, the exception leaves the acceptor, the
\* pipeline has made and makes no emit call, no other pipeline is touched,
\* and every other pipeline can still take its next step: start, get its
\* handler's result, emit.
C4_HandlerFailureAbortsOnlyItsPipeline ==
    /\ [](\A t \in Tasks :
            err[t] = "handler" =>
                /\ pc[t] = "failed"
                /\ emitted[t] = <<>>
                /\ \A u \in Tasks \ {t} :
                      /\ pc[u] = "idle" =>
                            ENABLED Deliver({u}, SampleOptions, "DbusDockerImageRequested")
                      /\ pc[u] = "handler" => ENABLED HandlerReturns(u, <<>>)
                      /\ pc[u] = "publishing" => ENABLED EmitReturns(u))
    /\ [][\A t \in Tasks :
            (err[t] # "handler" /\ err'[t] = "handler") =>
                \A u \in Tasks \ {t} : Pipeline(u)' = Pipeline(u)]_vars

C4_Witness ==
    /\ err["p1"] = "handler" /\ pc["p1"] = "failed" /\ emitted["p1"] = <<>>
    /\ pc["p2"] = "done" /\ Len(emitted["p2"]) = MaxResults

\* C5: when the domain handler returns no event, the acceptor makes no emit
\* call and returns without an exception.
C5_EmptyResultPublishesNothing ==
    \A t \in Tasks :
        (Returned(t) /\ results[t] = <<>>)
            => pc[t] = "done" /\ emitted[t] = <<>> /\ err[t] = "none"

C5_Witness ==
    \E t \in Tasks :
        /\ Returned(t) /\ results[t] = <<>> /\ pc[t] = "done"
        /\ emitted[t] = <<>>
        /\ \E u \in Tasks : emitted[u] # <<>>

\* C6: the metadata of the event has as keys the keys of options other than
\* image_version and docker_registry_url, each with the value options gives
\* it; empty options give empty metadata.
C6_MetadataIsOptionsMinusExcluded ==
    \A t \in Tasks :
        Handed(t) =>
            LET m == event[t].metadata
                o == options[t]
            IN  /\ DOMAIN m = DOMAIN o \ {"image_version", "docker_registry_url"}
                /\ \A k \in DOMAIN m : m[k] = o[k]
                /\ DOMAIN o = {} => DOMAIN m = {}

C6_Witness ==
    \E t \in Tasks :
        /\ Handed(t)
        /\ {"image_version", "docker_registry_url", "trace_id", "variant"}
               \subseteq DOMAIN options[t]
        /\ DOMAIN event[t].metadata = DOMAIN options[t] \ {"image_version", "docker_registry_url"}
        /\ event[t].metadata["trace_id"] = PyStr("x")

\* C7: with variant, python_version and image_version in options, the event
\* accept_docker_image_requested hands to the handler is a DockerImageRequested
\* named "licdata-" + variant + "-python" + python_version, with the
\* image_version of options and the options without image_version and
\* docker_registry_url as metadata.
C7_RequestedEventFields ==
    \A t \in Tasks :
        LET o == options[t] IN
        (/\ Handed(t)
         /\ acceptor[t] = "accept_docker_image_requested"
         /\ HasStr(o, "variant") /\ HasStr(o, "python_version")
         /\ HasStr(o, "image_version"))
            => /\ event[t].class = "DockerImageRequested"
               /\ event[t].image_name =
                      "licdata-" \o o["variant"].v \o "-python" \o o["python_version"].v
               /\ event[t].image_version = o["image_version"]
               /\ event[t].metadata = Without(o, {"image_version", "docker_registry_url"})
               /\ DOMAIN event[t].metadata \cap {"image_version", "docker_registry_url"} = {}

C7_Witness ==
    \E t \in Tasks :
        /\ acceptor[t] = "accept_docker_image_requested" /\ Handed(t)
        /\ options[t] = [variant |-> PyStr("slim"), python_version |-> PyStr("3.12"),
                         image_version |-> PyStr("1.0")]
        /\ event[t].image_name = "licdata-slim-python3.12"
        /\ event[t].image_version = PyStr("1.0")
        /\ "image_version" \notin DOMAIN event[t].metadata

\* C8: with variant, python_version, image_version and docker_registry_url in
\* options, the event accept_docker_image_push_requested hands to the handler
\* is a DockerImagePushRequested with the name and version of the build event,
\* image_url docker_registry_url + "/" + image_name + ":" + image_version,
\* docker_registry_url as a field, and neither image_version nor
\* docker_registry_url in its metadata.
C8_PushRequestedEventFields ==
    \A t \in Tasks :
        LET o == options[t] IN
        (/\ Handed(t)
         /\ acceptor[t] = "accept_docker_image_push_requested"
         /\ HasStr(o, "variant") /\ HasStr(o, "python_version")
         /\ HasStr(o, "image_version") /\ HasStr(o, "docker_registry_url"))
            => /\ event[t].class = "DockerImagePushRequested"
               /\ event[t].image_name =
                      "licdata-" \o o["variant"].v \o "-python" \o o["python_version"].v
               /\ event[t].image_version = o["image_version"]
               /\ event[t].image_url =
                      o["docker_registry_url"].v \o "/" \o event[t].image_name
                          \o ":" \o o["image_version"].v
               /\ event[t].docker_registry_url = o["docker_registry_url"]
               /\ DOMAIN event[t].metadata \cap {"image_version", "docker_registry_url"} = {}

C8_Witness ==
    \E t \in Tasks :
        /\ acceptor[t] = "accept_docker_image_push_requested" /\ Handed(t)
        /\ options[t] = [variant |-> PyStr("slim"), python_version |-> PyStr("3.12"),
                         image_version |-> PyStr("1.0"),
                         docker_registry_url |-> PyStr("registry.example.com")]
        /\ event[t].image_url = "registry.example.com/licdata-slim-python3.12:1.0"
        /\ DOMAIN event[t].metadata = {"variant", "python_version"}

\* The text a value of options is interpolated as: the str itself, and "None"
\* for a key that is missing or None.
Interpolated(o, k) == IF HasStr(o, k) THEN o[k].v ELSE "None"

\* The field a value of options becomes: the value itself, None when missing.
Field(o, k) == IF k \in DOMAIN o THEN o[k] ELSE None

\* C9: whatever options lacks, both acceptors build the event and call the
\* handler without raising; a missing image_version or docker_registry_url
\* is None in the event, and every missing value is the text "None" in
\* image_name and image_url.
C9_MissingOptionsNeverFailTranslation ==
    \A t \in Tasks :
        pc[t] # "idle" =>
            LET o == options[t]
                name == "licdata-" \o Interpolated(o, "variant") \o "-python"
                            \o Interpolated(o, "python_version")
            IN  /\ err[t] # "translate"
                /\ Handed(t)
                /\ event[t].image_name = name
                /\ event[t].image_version = Field(o, "image_version")
                /\ acceptor[t] = "accept_docker_image_push_requested" =>
                      /\ event[t].docker_registry_url = Field(o, "docker_registry_url")
                      /\ event[t].image_url =
                             Interpolated(o, "docker_registry_url") \o "/" \o name
                                 \o ":" \o Interpolated(o, "image_version")

C9_Witness ==
    \E t \in Tasks :
        /\ acceptor[t] = "accept_docker_image_push_requested"
        /\ DOMAIN options[t] = {}
        /\ pc[t] = "handler"
        /\ event[t].image_name = "licdata-None-pythonNone"
        /\ event[t].image_url = "None/licdata-None-pythonNone:None"
        /\ event[t].image_version = None
        /\ event[t].docker_registry_url = None

\* C10: an event class other than image build requested, image push requested
\* and credential provided has no entry in the inbound table, and delivering
\* it starts no acceptor: no pipeline changes, so nothing is translated,
\* handled, published or raised.
C10_UnregisteredKindIsIgnored ==
    /\ [](lookup.event_class \in
              InboundKinds \ {"DbusDockerImageRequested", "DbusDockerImagePushRequested",
                              "DbusCredentialProvided"}
            => ~lookup.hit)
    /\ [][\A kind \in InboundKinds \ {"DbusDockerImageRequested",
                                      "DbusDockerImagePushRequested",
                                      "DbusCredentialProvided"} :
            Deliver(Tasks, SampleOptions, kind) => UNCHANGED pipelines]_vars

C10_Witness ==
    /\ lookup = [event_class |-> "DbusDockerImagePushed", hit |-> FALSE]
    /\ \A t \in Tasks : pc[t] = "idle" /\ event[t] = NoEvent /\ emitted[t] = <<>>

\* The handler that takes the events of a class.
HandlerFor(class) ==
    IF class = "DockerImageRequested"
    THEN "listen_DockerImageRequested"
    ELSE "listen_DockerImagePushRequested"

\* C11: a pipeline that was accepted has built one domain event, of the class
\* of its acceptor, and has invoked once the handler of that class with it;
\* the event is never changed afterwards.
C11_OneEventOneMatchingInvocation ==
    /\ [](\A t \in Tasks :
            /\ pc[t] = "idle" => invoked[t] = <<>>
            /\ pc[t] # "idle" =>
                  /\ Len(invoked[t]) = 1
                  /\ invoked[t][1].event = event[t]
                  /\ invoked[t][1].handler = HandlerFor(event[t].class)
                  /\ acceptor[t] = "accept_docker_image_requested"
                        <=> event[t].class = "DockerImageRequested"
                  /\ acceptor[t] = "accept_docker_image_push_requested"
                        <=> event[t].class = "DockerImagePushRequested")
    /\ [][\A t \in Tasks :
            pc[t] # "idle" => event'[t] = event[t] /\ invoked'[t] = invoked[t]]_vars

C11_Witness ==
    \E t \in Tasks, u \in Tasks :
        /\ pc[t] = "done" /\ Len(emitted[t]) = MaxResults
        /\ invoked[t] = <<[handler |-> "listen_DockerImagePushRequested", event |-> event[t]]>>
        /\ invoked[u] = <<[handler |-> "listen_DockerImageRequested", event |-> event[u]]>>

\* C12: no emit call is made before the handler has returned; a pipeline
\* leaves Dispatching only when emit has been called for every result event,
\* or with an exception; and when the handler and the emit calls complete,
\* every pipeline that is Dispatching leaves it.
C12_PipelineOrderAndReturnToIdle ==
    /\ [](\A t \in Tasks :
            /\ emitted[t] # <<>> => Returned(t) /\ Handed(t)
            /\ Returned(t) => Handed(t)
            /\ pc[t] = "done" => Returned(t) /\ emitted[t] = results[t])
    /\ [][\A t \in Tasks :
            (Dispatching(t) /\ pc'[t] \notin {"handler", "publishing"})
                => \/ pc'[t] = "done" /\ emitted'[t] = results'[t]
                   \/ pc'[t] = "failed" /\ err'[t] \in {"handler", "emit"}]_vars
    /\ \A t \in Tasks : Dispatching(t) ~> ~Dispatching(t)

C12_Witness ==
    /\ pc["p1"] = "done" /\ Len(results["p1"]) = MaxResults
    /\ emitted["p1"] = results["p1"]
    /\ pc["p2"] = "failed" /\ err["p2"] = "emit" /\ Len(emitted["p2"]) = 1

\* C13: a build request and a push request reach their acceptor from the
\* command line as they do from the bus.
C13_BothKindsFromBothSurfaces ==
    lookup.event_class \in {"RequestDockerImageCli", "RequestDockerImagePushedCli",
                            "DbusDockerImageRequested", "DbusDockerImagePushRequested"}
        => lookup.hit

\* What the class does for C13: a build request reaches
\* accept_docker_image_requested from the command line and from the bus, and
\* with equal options both hand the handler equal events; a push request
\* reaches its acceptor from the bus only, the class enabling no command-line
\* port for it.
C13_BuildFromBothSurfacesPushFromBus ==
    /\ lookup.event_class \in {"RequestDockerImageCli", "DbusDockerImageRequested",
                               "DbusDockerImagePushRequested"} => lookup.hit
    /\ lookup.event_class = "RequestDockerImagePushedCli" => ~lookup.hit
    /\ \A t \in Tasks :
          /\ surface[t] = "cli" => acceptor[t] = "accept_docker_image_requested"
          /\ acceptor[t] = "accept_docker_image_push_requested" => surface[t] = "bus"
          /\ pc[t] # "idle" <=> surface[t] \in {"cli", "bus"}
    /\ \A t \in Tasks, u \in Tasks :
          (/\ surface[t] = "cli" /\ surface[u] = "bus"
           /\ acceptor[u] = "accept_docker_image_requested"
           /\ options[t] = options[u])
              => event[t] = event[u] /\ invoked[t] = invoked[u]

C13_Witness ==
    /\ surface["p1"] = "cli" /\ surface["p2"] = "bus"
    /\ acceptor["p1"] = "accept_docker_image_requested"
    /\ acceptor["p2"] = "accept_docker_image_requested"
    /\ options["p1"] = options["p2"] /\ "variant" \in DOMAIN options["p1"]
    /\ Handed("p1") /\ Handed("p2") /\ event["p1"] = event["p2"]

\* C14: two pipelines of the same acceptor called with equal options hand
\* the handler equal events, whatever ran before or between them.
C14_TranslationIsDeterministic ==
    \A t \in Tasks, u \in Tasks :
        (/\ Handed(t) /\ Handed(u)
         /\ acceptor[t] = acceptor[u]
         /\ options[t] = options[u])
            => event[t] = event[u]

C14_Witness ==
    /\ pc["p1"] = "failed" /\ err["p1"] = "emit"
    /\ pc["p2"] = "handler"
    /\ acceptor["p1"] = acceptor["p2"] /\ options["p1"] = options["p2"]
    /\ surface["p1"] = surface["p2"]
    /\ event["p1"] = event["p2"] /\ event["p1"].class = "DockerImageRequested"

\* The signals of the result events rs whose class is among the three of the
\* outbound table, each on the system bus.
RECURSIVE SystemSignals(_)
SystemSignals(rs) ==
    IF rs = <<>> THEN <<>>
    ELSE LET e == Head(rs)
         IN  (IF e \in {"CredentialRequested", "DockerImageAvailable", "DockerImagePushed"}
              THEN <<[event |-> e, event_class |-> "Dbus" \o e, bus_type |-> "SYSTEM"]>>
              ELSE <<>>) \o SystemSignals(Tail(rs))

\* The emit calls of pipeline t that have returned.
ReturnedCalls(t) ==
    IF err[t] = "emit" THEN SubSeq(emitted[t], 1, Len(emitted[t]) - 1) ELSE emitted[t]

C16_RoutingTableIsConstant ==
    /\ [](/\ routing.inbound =
                {[event_class |-> c, bus_type |-> "SYSTEM"] :
                    c \in {"DbusDockerImageRequested", "DbusDockerImagePushRequested",
                           "DbusCredentialProvided"}}
          /\ routing.outbound =
                {[event_class |-> c, bus_type |-> "SYSTEM"] :
                    c \in {"DbusCredentialRequested", "DbusDockerImageAvailable",
                           "DbusDockerImagePushed"}})
    /\ [][routing' = routing]_vars

C16_Witness ==
    /\ pc["p1"] = "done" /\ Len(published["p1"]) = MaxResults
    /\ pc["p2"] = "failed" /\ err["p2"] = "handler"
    /\ lookup.event_class = "DbusDockerImagePushed"
    /\ routing = [inbound |-> InboundTable, outbound |-> OutboundTable, cli |-> CliTable]

\* C17: a call of either acceptor leaves the options it was given as they
\* were, image_version and docker_registry_url included, for as long as the
\* pipeline runs; the metadata of the event is another mapping, without the
\* two keys.
C17_OptionsAreNotModified ==
    /\ [][\A t \in Tasks :
            (pc[t] = "idle" /\ pc'[t] # "idle") =>
                \A opts \in AllOptions :
                    (\/ accept_docker_image_requested(t, opts)
                     \/ accept_docker_image_push_requested(t, opts))
                        => /\ options'[t] = opts
                           /\ DOMAIN options'[t] = DOMAIN opts]_vars
    /\ [][\A t \in Tasks : pc[t] # "idle" => options'[t] = options[t]]_vars
    /\ [](\A t \in Tasks :
            Handed(t) =>
                /\ DOMAIN event[t].metadata \cap {"image_version", "docker_registry_url"} = {}
                /\ DOMAIN event[t].metadata \subseteq DOMAIN options[t]
                /\ DOMAIN options[t] \ DOMAIN event[t].metadata
                       \subseteq {"image_version", "docker_registry_url"})

C17_Witness ==
    \E t \in Tasks :
        /\ pc[t] = "done" /\ emitted[t] # <<>>
        /\ options[t] = [variant |-> PyStr("full"), image_version |-> PyStr("1.0"),
                         docker_registry_url |-> PyStr("registry.example.com"),
                         azure_base_version |-> PyStr("4")]
        /\ DOMAIN event[t].metadata = {"variant", "azure_base_version"}

\* C18: whatever the other pipelines do, the event of a pipeline is the one
\* its own options give, its emit calls are a prefix of its own results, the
\* signals it sent are those of its own emit calls, and a step that is not
\* its own changes none of them.
C18_PipelinesShareNoState ==
    /\ [](\A t \in Tasks :
            /\ Handed(t) =>
                  /\ event[t].image_name =
                         "licdata-" \o Interpolated(options[t], "variant")
                             \o "-python" \o Interpolated(options[t], "python_version")
                  /\ event[t].image_version = Field(options[t], "image_version")
                  /\ event[t].metadata =
                         Without(options[t], {"image_version", "docker_registry_url"})
                  /\ invoked[t] = <<[handler |-> HandlerFor(event[t].class),
                                     event |-> event[t]]>>
            /\ Len(emitted[t]) <= Len(results[t])
            /\ emitted[t] = SubSeq(results[t], 1, Len(emitted[t]))
            /\ published[t] = SystemSignals(ReturnedCalls(t)))
    /\ [][\A t \in Tasks :
            (pc'[t] = pc[t] /\ idx'[t] = idx[t]) =>
                /\ options'[t] = options[t] /\ event'[t] = event[t]
                /\ results'[t] = results[t] /\ emitted'[t] = emitted[t]
                /\ published'[t] = published[t] /\ invoked'[t] = invoked[t]]_vars

C18_Witness ==
    /\ pc["p1"] = "publishing" /\ pc["p2"] = "publishing"
    /\ acceptor["p1"] # acceptor["p2"]
    /\ options["p1"] # options["p2"]
    /\ event["p1"].image_name # event["p2"].image_name
    /\ results["p1"] # results["p2"]
    /\ Len(emitted["p1"]) = 1 /\ Len(emitted["p2"]) = 1
    /\ emitted["p1"] # emitted["p2"]

\* options with the value v under the key k.
With(o, k, v) == [x \in DOMAIN o \cup {k} |-> IF x = k THEN v ELSE o[x]]

\* C19: the event accept_docker_image_requested hands to the handler has no
\* docker_registry_url, in a field or in its metadata, and is the event the
\* same options give with docker_registry_url missing, None or any address.
C19_BuildEventIgnoresRegistryUrl ==
    \A t \in Tasks :
        (Handed(t) /\ acceptor[t] = "accept_docker_image_requested") =>
            /\ DOMAIN event[t] = {"class", "image_name", "image_version", "metadata"}
            /\ "docker_registry_url" \notin DOMAIN event[t].metadata
            /\ RequestedEvent(Without(options[t], {"docker_registry_url"})) = event[t]
            /\ \A v \in {None, PyStr("registry.example.com"), PyStr("other.example.org")} :
                  RequestedEvent(With(options[t], "docker_registry_url", v)) = event[t]

C19_Witness ==
    \E t \in Tasks :
        /\ Handed(t) /\ acceptor[t] = "accept_docker_image_requested"
        /\ options[t] = [variant |-> PyStr("slim"), python_version |-> PyStr("3.12"),
                         image_version |-> PyStr("1.0"),
                         docker_registry_url |-> PyStr("registry.example.com"),
                         trace_id |-> PyStr("x")]
        /\ event[t] = [class |-> "DockerImageRequested",
                       image_name |-> "licdata-slim-python3.12",
                       image_version |-> PyStr("1.0"),
                       metadata |-> [variant |-> PyStr("slim"),
                                     python_version |-> PyStr("3.12"),
                                     trace_id |-> PyStr("x")]]

\* C20: from the same options the build event and the push event have the
\* same image_name, image_version and metadata, and the image_url of the
\* push event is its own docker_registry_url, "/", its own image_name, ":"
\* and its own image_version.
C20_BuildAndPushEventsAgree ==
    \A t \in Tasks :
        Handed(t) =>
            LET build == RequestedEvent(options[t])
                push  == PushRequestedEvent(options[t])
            IN  /\ event[t] \in {build, push}
                /\ acceptor[t] = "accept_docker_image_requested" => event[t] = build
                /\ acceptor[t] = "accept_docker_image_push_requested" => event[t] = push
                /\ push.image_name = build.image_name
                /\ push.image_version = build.image_version
                /\ push.metadata = build.metadata
                /\ push.image_url =
                       Format(push.docker_registry_url) \o "/" \o push.image_name
                           \o ":" \o Format(push.image_version)

C20_Witness ==
    \E t \in Tasks :
        /\ Handed(t) /\ acceptor[t] = "accept_docker_image_push_requested"
        /\ options[t] = [variant |-> PyStr("full"), python_version |-> PyStr("3.12"),
                         docker_registry_url |-> PyStr("registry.example.com")]
        /\ event[t].image_name = "licdata-full-python3.12"
        /\ event[t].image_name = RequestedEvent(options[t]).image_name
        /\ event[t].image_version = None
        /\ event[t].image_url = "registry.example.com/licdata-full-python3.12:None"

====
